---- MODULE Spec2Model ----
(***************************************************************************)
(* Model of seller.py: synchronisation of a vendor stock report with the   *)
(* Ozon seller API.                                                        *)
(*                                                                         *)
(* A Python str is a sequence of one-character strings, so that the        *)
(* character-level functions (price_conversion, str(), int()) are computed *)
(* and not assumed.  A spreadsheet cell read by pandas is either a str or  *)
(* an int; it is a record [t |-> "str" | "int", v |-> value].  The keys    *)
(* "Код", "Количество", "Цена" of a row are the fields Kod, Kolichestvo,   *)
(* Tsena.  A call that may raise returns a record with a field `raised`.   *)
(***************************************************************************)
EXTENDS Integers, Sequences, FiniteSets, TLC

VARIABLES
    pc,             \* position of the running function
    flow,           \* entry point of the run: main, upload_prices, upload_stocks
    catalog,        \* environment: the offer ids the marketplace lists
    feed,           \* environment: the rows of the vendor spreadsheet
    offer_ids,      \* local list offer_ids (one list object, shared by reference)
    watch_remnants, \* local watch_remnants
    stocks,         \* local stocks
    prices,         \* local prices
    batches,        \* list(divide(...)) being iterated
    idx,            \* position of the for loop in batches
    calls,          \* history of update_stocks / update_price requests
    exc,            \* exception in flight, "" when none
    printed,        \* what main's handler printed, "" when nothing
    call,           \* pure-function runs: the function and its arguments
    ret,            \* pure-function runs: the outcome
    last_id,        \* get_offer_ids: local last_id
    product_list,   \* get_offer_ids: local product_list
    total,          \* get_offer_ids: local total
    requests,       \* get_offer_ids: history of the cursors sent
    responses       \* get_offer_ids: history of the responses received

vars == <<pc, flow, catalog, feed, offer_ids, watch_remnants, stocks, prices,
          batches, idx, calls, exc, printed, call, ret,
          last_id, product_list, total, requests, responses>>

flow_vars == <<flow, catalog, feed, offer_ids, watch_remnants, stocks, prices,
               batches, idx, calls, exc, printed>>

fn_vars == <<call, ret>>

page_vars == <<last_id, product_list, total, requests, responses>>

-----------------------------------------------------------------------------
(* Bounds of the model.                                                    *)

\* longest vendor feed of the enumerated (small) inputs
MaxRows == 2
\* longest list of known offer ids of the enumerated (small) inputs
MaxIds == 2
\* longest price string enumerated over PriceAlphabet
MaxPriceLen == 4
\* longest list handed to divide in the enumerated inputs
MaxLen == 4
\* largest magnitude of the batch size handed to divide in the enumerated inputs
MaxN == 3
\* pages get_offer_ids may request before the model stops following it
MaxRequests == 3
\* largest total a listing response reports
MaxTotal == 3
\* size of the large catalog and of the large feed (above every batch limit)
BigSize == 1001

-----------------------------------------------------------------------------
(* Python str and int.                                                     *)

DigitChars == <<"0", "1", "2", "3", "4", "5", "6", "7", "8", "9">>

IsDigit(c) == \E d \in 1..10 : DigitChars[d] = c

DigitValue(c) == (CHOOSE d \in 1..10 : DigitChars[d] = c) - 1

RECURSIVE NatToStr(_)
NatToStr(n) ==
    IF n < 10 THEN <<DigitChars[n + 1]>>
    ELSE NatToStr(n \div 10) \o <<DigitChars[(n % 10) + 1]>>

IntToStr(n) == IF n < 0 THEN <<"-">> \o NatToStr(-n) ELSE NatToStr(n)

StrCell(s) == [t |-> "str", v |-> s]

IntCell(n) == [t |-> "int", v |-> n]

\* str(x) of a cell
py_str(x) == IF x.t = "int" THEN IntToStr(x.v) ELSE x.v

\* the digits of an int literal, after an optional sign
Unsigned(s) == IF Len(s) > 0 /\ s[1] \in {"-", "+"} THEN Tail(s) ELSE s

\* whether int(s) accepts the str s: an optional sign, then one or more digits
IsIntLiteral(s) ==
    /\ Len(Unsigned(s)) > 0
    /\ \A i \in 1..Len(Unsigned(s)) : IsDigit(Unsigned(s)[i])

RECURSIVE DigitsValue(_, _, _)
DigitsValue(s, i, acc) ==
    IF i > Len(s) THEN acc ELSE DigitsValue(s, i + 1, 10 * acc + DigitValue(s[i]))

ParseInt(s) ==
    IF Len(s) > 0 /\ s[1] = "-" THEN 0 - DigitsValue(Unsigned(s), 1, 0)
    ELSE DigitsValue(Unsigned(s), 1, 0)

\* int(x) of a cell raises ValueError on a str that is no int literal
py_int_raises(x) == x.t = "str" /\ ~IsIntLiteral(x.v)

py_int(x) == IF x.t = "int" THEN x.v ELSE ParseInt(x.v)

\* x in lst
In(x, lst) == \E i \in 1..Len(lst) : lst[i] = x

\* lst.remove(x): the list without its first element equal to x
Remove(lst, x) ==
    LET first == CHOOSE i \in 1..Len(lst) :
                     lst[i] = x /\ \A j \in 1..(i - 1) : lst[j] # x
    IN  SubSeq(lst, 1, first - 1) \o SubSeq(lst, first + 1, Len(lst))

-----------------------------------------------------------------------------
(* create_stocks                                                           *)

GT10 == <<">", "1", "0">>

ONE == <<"1">>

\* StockOf without the rule that a single unit counts as none
StockOfLiteral(watch) ==
    IF py_str(watch.Kolichestvo) = GT10 THEN 100 ELSE py_int(watch.Kolichestvo)

\* lines 224-230: the stock of a matched row
StockOf(watch) ==
    LET count == py_str(watch.Kolichestvo)
    IN  IF count = GT10 THEN 100
        ELSE IF count = ONE THEN 0
        ELSE py_int(watch.Kolichestvo)

\* whether lines 224-230 raise on the row (int() of a non-numeric quantity)
StockRaises(watch) ==
    LET count == py_str(watch.Kolichestvo)
    IN  count # GT10 /\ count # ONE /\ py_int_raises(watch.Kolichestvo)

\* Consume without the removal of the matched id
ConsumeNothing(ids, code) == ids

\* the list a matched row leaves behind (line 232)
Consume(ids, code) == Remove(ids, code)

\* lines 222-232: the loop over the feed from row i on; ids is the caller's list,
\* mutated in place
RECURSIVE StocksLoop(_, _, _, _)
StocksLoop(rows, i, ids, acc) ==
    IF i > Len(rows) THEN [raised |-> FALSE, stocks |-> acc, offer_ids |-> ids]
    ELSE LET watch == rows[i]
             code  == py_str(watch.Kod)
         IN  IF ~In(code, ids) THEN StocksLoop(rows, i + 1, ids, acc)
             ELSE IF StockRaises(watch)
                  THEN [raised |-> TRUE, stocks |-> acc, offer_ids |-> ids]
             ELSE StocksLoop(rows, i + 1, Consume(ids, code),
                             Append(acc, [offer_id |-> code, stock |-> StockOf(watch)]))

\* lines 233-234: a zero record for every id left in the list
ZeroRecords(ids) == [j \in 1..Len(ids) |-> [offer_id |-> ids[j], stock |-> 0]]

\* create_stocks(watch_remnants, offer_ids): value is the returned list, offer_ids
\* the argument list as the call leaves it
create_stocks(rows, ids) ==
    LET r == StocksLoop(rows, 1, ids, <<>>)
    IN  IF r.raised THEN [raised |-> TRUE, value |-> <<>>, offer_ids |-> r.offer_ids]
        ELSE [raised |-> FALSE, value |-> r.stocks \o ZeroRecords(r.offer_ids),
              offer_ids |-> r.offer_ids]

-----------------------------------------------------------------------------
(* price_conversion, create_prices                                         *)

\* BeforePeriod without the split at the period
WholePrice(price) == price

\* price.split(".")[0]: the text before the first period, all of it without one
BeforePeriod(price) ==
    IF \E i \in 1..Len(price) : price[i] = "."
    THEN SubSeq(price, 1, (CHOOSE i \in 1..Len(price) :
                               price[i] = "." /\ \A j \in 1..(i - 1) : price[j] # ".") - 1)
    ELSE price

\* re.sub("[^0-9]", "", s)
StripNonDigits(s) == SelectSeq(s, IsDigit)

price_conversion(price) == StripNonDigits(BeforePeriod(price))

\* PriceMatch without the test against the known ids
PriceMatchAny(watch, ids) == TRUE

\* line 253: the test of a row against the list of ids
PriceMatch(watch, ids) == In(py_str(watch.Kod), ids)

\* lines 254-260
PriceRecord(watch) ==
    [auto_action_enabled |-> "UNKNOWN", currency_code |-> "RUB",
     offer_id |-> py_str(watch.Kod), old_price |-> "0",
     price |-> price_conversion(watch.Tsena)]

create_prices(rows, ids) ==
    LET matched == SelectSeq(rows, LAMBDA watch : PriceMatch(watch, ids))
    IN  [j \in 1..Len(matched) |-> PriceRecord(matched[j])]

-----------------------------------------------------------------------------
(* divide                                                                  *)

\* RangeLen rounding down, so that a shorter last batch is lost
RangeLenFloor(stop, step) == IF step > 0 /\ stop > 0 THEN stop \div step ELSE 0

\* len(range(0, stop, step)) for step # 0
RangeLen(stop, step) ==
    IF step > 0 THEN (IF stop > 0 THEN (stop + step - 1) \div step ELSE 0)
    ELSE (IF stop < 0 THEN ((0 - stop) + (0 - step) - 1) \div (0 - step) ELSE 0)

\* lst[i : j] with 0 <= i <= j (Python clamps j to len(lst))
Slice(lst, i, j) == SubSeq(lst, i + 1, IF j < Len(lst) THEN j ELSE Len(lst))

\* divide with a zero step taken for an empty range instead of an error
divide_unchecked(lst, n) ==
    [raised |-> FALSE,
     value |-> [k \in 1..(IF n = 0 THEN 0 ELSE RangeLen(Len(lst), n)) |->
                   Slice(lst, (k - 1) * n, (k - 1) * n + n)]]

\* list(divide(lst, n)): range() raises ValueError on a zero step when the
\* generator is first advanced
divide(lst, n) ==
    IF n = 0 THEN [raised |-> TRUE, value |-> <<>>]
    ELSE [raised |-> FALSE,
          value |-> [k \in 1..RangeLen(Len(lst), n) |->
                        Slice(lst, (k - 1) * n, (k - 1) * n + n)]]

-----------------------------------------------------------------------------
(* Inputs of the runs of a single function.                                *)

SeqsUpTo(S, n) == UNION {[1..k -> S] : k \in 0..n}

NoDup(s) == \A i, j \in 1..Len(s) : s[i] = s[j] => i = j

\* offer ids of the enumerated catalogs
Ids == {<<"A">>, <<"B">>, <<"7">>}

\* The marketplace's offer ids are unique within the catalog.
Catalogs == {ids \in SeqsUpTo(Ids, MaxIds) : NoDup(ids)}

\* cells of the column "Код": text, and a number pandas read as an int
Codes == {StrCell(<<"A">>), StrCell(<<"7">>), IntCell(7)}

\* cells of the column "Количество": the two sentinels, numbers as text and as
\* ints, an empty cell and text that is no number
Quantities ==
    {StrCell(GT10), StrCell(ONE), IntCell(1), StrCell(<<"7">>), IntCell(12),
     StrCell(<<>>)}

Price5990 == <<"5", "'", "9", "9", "0", ".", "0", "0">>

Price1234 == <<"1", ",", "2", "3", "4", ".", "5", "6">>

Price100 == <<"1", "0", "0">>

PriceExamples == {Price5990, Price1234, Price100}

PriceAlphabet == {"1", "0", ".", "'"}

PriceStrings == SeqsUpTo(PriceAlphabet, MaxPriceLen) \cup PriceExamples

StockRows == {[Kod |-> c, Kolichestvo |-> q, Tsena |-> Price100] : c \in Codes, q \in Quantities}

PriceRows == {[Kod |-> c, Kolichestvo |-> StrCell(GT10), Tsena |-> p] : c \in Codes, p \in PriceExamples}

DivideLists == SeqsUpTo({1, 2}, MaxLen) \cup {<<1, 2, 3, 4, 5>>}

DivideSizes == (0 - MaxN)..MaxN

NoCall == [fn |-> ""]

NoRet == [raised |-> FALSE]

FlowIdle ==
    /\ flow = "" /\ catalog = <<>> /\ feed = <<>> /\ offer_ids = <<>>
    /\ watch_remnants = <<>> /\ stocks = <<>> /\ prices = <<>> /\ batches = <<>>
    /\ idx = 0 /\ calls = <<>> /\ exc = "" /\ printed = ""

FnIdle == call = NoCall /\ ret = NoRet

PagesIdle ==
    /\ last_id = <<>> /\ product_list = <<>> /\ total = 0
    /\ requests = <<>> /\ responses = <<>>

-----------------------------------------------------------------------------
(* Runs of create_stocks alone.                                            *)

InitStocks ==
    /\ pc = "call"
    /\ \E rows \in SeqsUpTo(StockRows, MaxRows), ids \in Catalogs :
           call = [fn |-> "create_stocks", watch_remnants |-> rows, offer_ids |-> ids]
    /\ ret = NoRet
    /\ FlowIdle /\ PagesIdle

CallCreateStocks ==
    /\ pc = "call" /\ call.fn = "create_stocks"
    /\ ret' = create_stocks(call.watch_remnants, call.offer_ids)
    /\ pc' = "done"
    /\ UNCHANGED <<call, flow_vars, page_vars>>

NextStocks == CallCreateStocks

SpecStocks == InitStocks /\ [][NextStocks]_vars

StocksReturned == pc = "done" /\ call.fn = "create_stocks" /\ ~ret.raised

\* the rows of the feed whose code is k
RowsOf(rows, k) == {i \in 1..Len(rows) : py_str(rows[i].Kod) = k}

Least(S) == CHOOSE i \in S : \A j \in S : i <= j

\* C1: the offer_ids of the records create_stocks returns are exactly the members
\* of the duplicate-free list of known ids it was given, each exactly once: as many
\* records as ids, none outside the list, none missing, none repeated.
C1_StockIdsAreKnownIds ==
    StocksReturned /\ NoDup(call.offer_ids) =>
        /\ Len(ret.value) = Len(call.offer_ids)
        /\ \A j \in 1..Len(ret.value) : In(ret.value[j].offer_id, call.offer_ids)
        /\ \A i \in 1..Len(call.offer_ids) :
               Cardinality({j \in 1..Len(ret.value) :
                               ret.value[j].offer_id = call.offer_ids[i]}) = 1

\* C1 witness: a feed with two rows of the same known code, a second known id
\* absent from the feed, and the call has returned.
C1_Witness ==
    /\ StocksReturned
    /\ Len(call.offer_ids) = 2
    /\ Len(call.watch_remnants) = 2
    /\ py_str(call.watch_remnants[1].Kod) = py_str(call.watch_remnants[2].Kod)
    /\ In(py_str(call.watch_remnants[1].Kod), call.offer_ids)

\* the stock the claim gives a row: 100 for ">10", 0 for "1", else the integer
ClaimedStock(watch) ==
    IF py_str(watch.Kolichestvo) = <<">", "1", "0">> THEN 100
    ELSE IF py_str(watch.Kolichestvo) = <<"1">> THEN 0
    ELSE py_int(watch.Kolichestvo)

\* C3: the stock of each known id is decided by the first row of the feed with
\* that code (100 for ">10", 0 for "1", else the quantity as an integer), later
\* rows with the code being ignored; an id with no row has stock 0.
C3_FirstRowDecidesStock ==
    StocksReturned =>
        \A j \in 1..Len(ret.value) :
            LET k == ret.value[j].offer_id
                R == RowsOf(call.watch_remnants, k)
            IN  IF R = {} THEN ret.value[j].stock = 0
                ELSE ret.value[j].stock = ClaimedStock(call.watch_remnants[Least(R)])

\* C3 witness: two rows with the same known code and different quantities, the
\* first being "7", and the returned record of that code has stock 7.
C3_Witness ==
    /\ StocksReturned
    /\ Len(call.watch_remnants) = 2
    /\ py_str(call.watch_remnants[1].Kod) = py_str(call.watch_remnants[2].Kod)
    /\ call.watch_remnants[1].Kolichestvo = StrCell(<<"7">>)
    /\ call.watch_remnants[2].Kolichestvo = StrCell(GT10)
    /\ \E j \in 1..Len(ret.value) :
           /\ ret.value[j].offer_id = py_str(call.watch_remnants[1].Kod)
           /\ ret.value[j].stock = 7
    /\ \E j \in 1..Len(ret.value) :
           /\ RowsOf(call.watch_remnants, ret.value[j].offer_id) = {}
           /\ ret.value[j].stock = 0

-----------------------------------------------------------------------------
(* Runs of create_prices and of price_conversion alone.                    *)

InitPrices ==
    /\ pc = "call"
    /\ \/ \E rows \in SeqsUpTo(PriceRows, MaxRows), ids \in Catalogs :
              call = [fn |-> "create_prices", watch_remnants |-> rows, offer_ids |-> ids]
       \/ \E p \in PriceStrings :
              call = [fn |-> "price_conversion", price |-> p]
    /\ ret = NoRet
    /\ FlowIdle /\ PagesIdle

CallCreatePrices ==
    /\ pc = "call" /\ call.fn = "create_prices"
    /\ ret' = [raised |-> FALSE,
               value |-> create_prices(call.watch_remnants, call.offer_ids)]
    /\ pc' = "done"
    /\ UNCHANGED <<call, flow_vars, page_vars>>

CallPriceConversion ==
    /\ pc = "call" /\ call.fn = "price_conversion"
    /\ ret' = [raised |-> FALSE, value |-> price_conversion(call.price)]
    /\ pc' = "done"
    /\ UNCHANGED <<call, flow_vars, page_vars>>

NextPrices == CallCreatePrices \/ CallPriceConversion

SpecPrices == InitPrices /\ [][NextPrices]_vars

PricesReturned == pc = "done" /\ call.fn = "create_prices"

\* the rows of the feed whose code is one of the ids
Qualifying(rows, ids) == {i \in 1..Len(rows) : In(py_str(rows[i].Kod), ids)}

\* how many members of S are at most i
Rank(S, i) == Cardinality({k \in S : k <= i})

\* C4: create_prices returns exactly one record per row whose code is a known id,
\* in the order of those rows, and none for an id that is not known; rows sharing
\* a code each give a record, and known ids without a row give none.
C4_OnePricePerQualifyingRow ==
    PricesReturned =>
        LET rows == call.watch_remnants
            Q    == Qualifying(rows, call.offer_ids)
        IN  /\ Len(ret.value) = Cardinality(Q)
            /\ \A i \in Q : ret.value[Rank(Q, i)].offer_id = py_str(rows[i].Kod)
            /\ \A j \in 1..Len(ret.value) : In(ret.value[j].offer_id, call.offer_ids)

\* C4 witness: two rows share a known code and each got its record, while the
\* other known id of the two has no row and no record.
C4_Witness ==
    /\ PricesReturned
    /\ Len(call.watch_remnants) = 2
    /\ py_str(call.watch_remnants[1].Kod) = py_str(call.watch_remnants[2].Kod)
    /\ Len(call.offer_ids) = 2
    /\ Len(ret.value) = 2
    /\ ret.value[1].offer_id = ret.value[2].offer_id

\* the digit positions of p before its first period
IntegerDigits(p) ==
    {i \in 1..Len(p) : IsDigit(p[i]) /\ \A j \in 1..i : p[j] # "."}

\* C8: price_conversion(p) is the decimal digits, in order, of the part of p before
\* its first period (all of p without a period), every other character removed and
\* the fraction cut off; "5'990.00" gives "5990", "1,234.56" "1234", "100" "100".
C8_DigitsBeforeFirstPeriod ==
    pc = "done" /\ call.fn = "price_conversion" =>
        LET D == IntegerDigits(call.price)
        IN  /\ Len(ret.value) = Cardinality(D)
            /\ \A i \in D : ret.value[Rank(D, i)] = call.price[i]
            /\ call.price = Price5990 => ret.value = <<"5", "9", "9", "0">>
            /\ call.price = Price1234 => ret.value = <<"1", "2", "3", "4">>
            /\ call.price = Price100 => ret.value = <<"1", "0", "0">>

\* C8 witness: the price "5'990.00" has been converted, to "5990".
C8_Witness ==
    /\ pc = "done" /\ call.fn = "price_conversion"
    /\ call.price = Price5990
    /\ ret.value = <<"5", "9", "9", "0">>

-----------------------------------------------------------------------------
(* Runs of divide alone: list(divide(lst, n)).                             *)

InitDivide ==
    /\ pc = "call"
    /\ \E lst \in DivideLists, n \in DivideSizes :
           call = [fn |-> "divide", lst |-> lst, n |-> n]
    /\ ret = NoRet
    /\ FlowIdle /\ PagesIdle

CallDivide ==
    /\ pc = "call" /\ call.fn = "divide"
    /\ ret' = divide(call.lst, call.n)
    /\ pc' = "done"
    /\ UNCHANGED <<call, flow_vars, page_vars>>

NextDivide == CallDivide

SpecDivide == InitDivide /\ [][NextDivide]_vars

RECURSIVE Concat(_)
Concat(ss) == IF ss = <<>> THEN <<>> ELSE Head(ss) \o Concat(Tail(ss))

\* C7: for a positive n the batches of divide(lst, n), concatenated, are lst; every
\* batch is non-empty, every batch but the last has n elements, the last has 1 to
\* n, and an empty lst gives no batches.
C7_BatchesPartitionTheList ==
    pc = "done" /\ call.fn = "divide" /\ call.n > 0 =>
        /\ ~ret.raised
        /\ Concat(ret.value) = call.lst
        /\ \A k \in 1..Len(ret.value) :
               /\ Len(ret.value[k]) >= 1
               /\ Len(ret.value[k]) <= call.n
               /\ k < Len(ret.value) => Len(ret.value[k]) = call.n
        /\ call.lst = <<>> => ret.value = <<>>
        /\ call.lst = <<1, 2, 3, 4, 5>> /\ call.n = 2 =>
               ret.value = <<<<1, 2>>, <<3, 4>>, <<5>>>>

\* C7 witness: [1,2,3,4,5] has been divided by 2, the last batch being shorter.
C7_Witness ==
    /\ pc = "done" /\ call.fn = "divide"
    /\ call.lst = <<1, 2, 3, 4, 5>> /\ call.n = 2
    /\ Len(ret.value) = 3 /\ Len(ret.value[3]) = 1

\* C9 as claimed: divide fails for every non-positive n, zero and negative alike.
C9_FailsOnNonPositive ==
    pc = "done" /\ call.fn = "divide" /\ call.n <= 0 => ret.raised

\* C9 amended: divide fails for n = 0 whatever the list; for a negative n it
\* does not fail and yields no batch.
C9_FailsOnZeroOnly ==
    pc = "done" /\ call.fn = "divide" =>
        /\ call.n = 0 => ret.raised
        /\ call.n < 0 => ~ret.raised /\ ret.value = <<>>

\* C9 witness: a non-empty list has been divided by a negative n, and the call
\* ended without an error and without a batch.
C9_Witness ==
    /\ pc = "done" /\ call.fn = "divide"
    /\ call.n < 0 /\ call.lst # <<>>
    /\ ~ret.raised /\ ret.value = <<>>

-----------------------------------------------------------------------------
(* get_offer_ids: the paging loop over get_product_list.                   *)

\* numbers of items a listing response carries in the model
PageSizes == {0, 1, 2}

\* cursors ("last_id") a listing response carries in the model
Cursors == {<<>>, <<"x">>}

\* the items of the k-th response when it carries n of them: each its own product
PageItems(k, n) == [j \in 1..n |-> [offer_id |-> IntToStr(10 * k + j)]]

\* what get_product_list may return for the k-th request (response.json()["result"])
ListingResponses(k) ==
    {[items |-> PageItems(k, n), total |-> t, last_id |-> c] :
        n \in PageSizes, t \in 0..MaxTotal, c \in Cursors}

\* LoopEnds taking "at least the total" for the end of the listing
LoopEndsAtLeast(tot, lst) == tot <= Len(lst)

\* line 72: the test that ends the loop
LoopEnds(tot, lst) == tot = Len(lst)

\* line 44: the cursor get_product_list sends
CursorSent(lid) == lid

\* lines 74-77
OfferIdsOf(lst) == [j \in 1..Len(lst) |-> lst[j].offer_id]

InitPages ==
    /\ pc = "request"
    /\ last_id = <<>> /\ product_list = <<>> /\ total = 0
    /\ requests = <<>> /\ responses = <<>>
    /\ FnIdle /\ FlowIdle

\* lines 68-73: one turn of the loop, the request answered
RequestPage ==
    /\ pc = "request"
    /\ Len(requests) < MaxRequests
    /\ \E some_prod \in ListingResponses(Len(requests) + 1) :
           /\ requests' = Append(requests, CursorSent(last_id))
           /\ responses' = Append(responses, some_prod)
           /\ product_list' = product_list \o some_prod.items
           /\ total' = some_prod.total
           /\ last_id' = some_prod.last_id
           /\ pc' = IF LoopEnds(some_prod.total, product_list \o some_prod.items)
                    THEN "collect" ELSE "request"
    /\ UNCHANGED <<call, ret, flow_vars>>

\* lines 47-48: the request answered with an error status, raise_for_status raises
RequestFails ==
    /\ pc = "request"
    /\ Len(requests) < MaxRequests
    /\ requests' = Append(requests, CursorSent(last_id))
    /\ pc' = "raised"
    /\ ret' = [raised |-> TRUE]
    /\ UNCHANGED <<call, flow_vars, last_id, product_list, total, responses>>

\* lines 74-77: the offer ids of the accumulated products are returned
ReturnOfferIds ==
    /\ pc = "collect"
    /\ ret' = [raised |-> FALSE, value |-> OfferIdsOf(product_list)]
    /\ pc' = "returned"
    /\ UNCHANGED <<call, flow_vars, page_vars>>

NextPages == RequestPage \/ RequestFails \/ ReturnOfferIds

SpecPages == InitPages /\ [][NextPages]_vars

RECURSIVE ItemsUpTo(_, _)
\* the items of the first k responses, in order
ItemsUpTo(rs, k) == IF k = 0 THEN <<>> ELSE ItemsUpTo(rs, k - 1) \o rs[k].items

\* whether the k-th response reports as total the number of items received so far
TotalReached(rs, k) == rs[k].total = Len(ItemsUpTo(rs, k))

\* C10: the first request carries the empty cursor and each later one the last_id
\* of the previous response; the loop stops at the first response whose total
\* equals the number of items accumulated, never earlier, and goes on while the
\* two differ (also when more were accumulated than reported); the result is the
\* offer_id of every accumulated item, in page order.
C10_PagingUntilTotalReached ==
    /\ \A i \in 1..Len(requests) :
           requests[i] = IF i = 1 THEN <<>> ELSE responses[i - 1].last_id
    /\ \A k \in 1..Len(responses) :
           TotalReached(responses, k) <=>
               (k = Len(responses) /\ pc \in {"collect", "returned"})
    /\ pc \in {"collect", "returned"} => responses # <<>>
    /\ pc = "request" /\ Len(requests) < MaxRequests => ENABLED RequestPage
    /\ pc = "returned" =>
           /\ ~ret.raised
           /\ Len(ret.value) = Len(ItemsUpTo(responses, Len(responses)))
           /\ \A j \in 1..Len(ret.value) :
                  ret.value[j] = ItemsUpTo(responses, Len(responses))[j].offer_id

\* C10 witness: three pages were requested, the second response reported fewer
\* items than were accumulated, the third ended the loop, and the ids were returned.
C10_Witness ==
    /\ pc = "returned"
    /\ Len(responses) = 3
    /\ responses[1].last_id # <<>>
    /\ responses[2].total < Len(ItemsUpTo(responses, 2))
    /\ Len(ret.value) = 3

-----------------------------------------------------------------------------
(* The runs that push to the marketplace: main, upload_prices, upload_stocks. *)

Flows == {"main", "upload_prices", "upload_stocks"}

\* the batch size of the stock pushes (lines 342 and 356)
StocksBatchSize == 100

\* PricesBatchSize with a zero too many
PricesBatchSizeTypo(f) == 10000

\* the batch size of the price pushes: 900 in main (line 359), 1000 in
\* upload_prices (line 320)
PricesBatchSize(f) == IF f = "main" THEN 900 ELSE 1000

\* a catalog of n offer ids "1" .. "n"
NumberedCatalog(n) == [i \in 1..n |-> IntToStr(i)]

\* a feed of n rows, one per offer id "1" .. "n"
NumberedFeed(n) ==
    [i \in 1..n |-> [Kod |-> IntCell(i), Kolichestvo |-> StrCell(GT10), Tsena |-> Price5990]]

FlowCatalogs ==
    {<<>>, <<<<"A">>>>, <<<<"A">>, <<"B">>>>}
    \cup {NumberedCatalog(n) : n \in {StocksBatchSize, StocksBatchSize + 1, 250, BigSize}}

FlowRows ==
    {[Kod |-> StrCell(<<"A">>), Kolichestvo |-> StrCell(GT10), Tsena |-> Price5990],
     [Kod |-> IntCell(1), Kolichestvo |-> IntCell(12), Tsena |-> Price100],
     [Kod |-> IntCell(2), Kolichestvo |-> StrCell(<<>>), Tsena |-> Price1234]}

\* The large feed is given to upload_prices only: create_stocks is followed row by
\* row, and the feeds it is given stay short.
FlowFeeds(f) ==
    SeqsUpTo(FlowRows, MaxRows)
    \cup (IF f = "upload_prices" THEN {NumberedFeed(BigSize)} ELSE {})

\* requests.exceptions raised by a request: a time-out, a refused connection, an
\* error status (raise_for_status)
RequestErrors == {"ReadTimeout", "ConnectionError", "HTTPError"}

\* Propagate with a failure in main swallowed, the run going on to the prices
PropagateSwallowed(f) == IF f = "main" THEN "create_prices" ELSE "raised"

\* where an exception raised in the body goes: main's try (line 352) catches it,
\* upload_prices and upload_stocks let it out
Propagate(f) == IF f = "main" THEN "except" ELSE "raised"

\* lines 361-366: what the handler prints
Message(e) ==
    IF e = "ReadTimeout" THEN "Prevysheno vremya ozhidaniya..."
    ELSE IF e = "ConnectionError" THEN "Oshibka soedineniya"
    ELSE "ERROR_2"

Init ==
    /\ pc = "get_offer_ids"
    /\ \E f \in Flows :
           /\ flow = f
           /\ catalog \in FlowCatalogs
           /\ feed \in FlowFeeds(f)
           /\ watch_remnants = IF f = "main" THEN <<>> ELSE feed
    /\ offer_ids = <<>> /\ stocks = <<>> /\ prices = <<>> /\ batches = <<>>
    /\ idx = 0 /\ calls = <<>> /\ exc = "" /\ printed = ""
    /\ FnIdle /\ PagesIdle

\* lines 353, 318, 340: get_offer_ids returns the listed ids, or a request fails
GetOfferIds ==
    /\ pc = "get_offer_ids"
    /\ \/ /\ offer_ids' = catalog
          /\ pc' = IF flow = "main" THEN "download_stock"
                   ELSE IF flow = "upload_prices" THEN "create_prices"
                   ELSE "create_stocks"
          /\ exc' = exc
       \/ /\ \E e \in RequestErrors : exc' = e
          /\ pc' = Propagate(flow)
          /\ offer_ids' = offer_ids
    /\ UNCHANGED <<flow, catalog, feed, watch_remnants, stocks, prices, batches,
                   idx, calls, printed, fn_vars, page_vars>>

\* line 354: download_stock returns the rows of the feed, or the download fails
DownloadStock ==
    /\ pc = "download_stock"
    /\ \/ /\ watch_remnants' = feed
          /\ pc' = "create_stocks"
          /\ exc' = exc
       \/ /\ \E e \in RequestErrors : exc' = e
          /\ pc' = Propagate(flow)
          /\ watch_remnants' = watch_remnants
    /\ UNCHANGED <<flow, catalog, feed, offer_ids, stocks, prices, batches,
                   idx, calls, printed, fn_vars, page_vars>>

\* lines 355-356, 341-342: create_stocks on the list offer_ids itself, then the
\* batches of the for loop; int() may raise inside create_stocks
CreateStocks ==
    /\ pc = "create_stocks"
    /\ LET r == create_stocks(watch_remnants, offer_ids)
       IN  /\ offer_ids' = r.offer_ids
           /\ IF r.raised
              THEN /\ exc' = "ValueError"
                   /\ pc' = Propagate(flow)
                   /\ UNCHANGED <<stocks, batches, idx>>
              ELSE /\ stocks' = r.value
                   /\ batches' = divide(r.value, StocksBatchSize).value
                   /\ idx' = 1
                   /\ pc' = "update_stocks"
                   /\ exc' = exc
    /\ UNCHANGED <<flow, catalog, feed, watch_remnants, prices, calls, printed,
                   fn_vars, page_vars>>

\* lines 357, 343: one turn of the loop, update_stocks(some_stock, ...)
UpdateStocks ==
    /\ pc = "update_stocks"
    /\ idx <= Len(batches)
    /\ \/ /\ calls' = Append(calls, [fn |-> "update_stocks", batch |-> idx,
                                     n |-> Len(batches[idx]), ok |-> TRUE])
          /\ idx' = idx + 1
          /\ UNCHANGED <<pc, exc>>
       \/ /\ calls' = Append(calls, [fn |-> "update_stocks", batch |-> idx,
                                     n |-> Len(batches[idx]), ok |-> FALSE])
          /\ \E e \in RequestErrors : exc' = e
          /\ pc' = Propagate(flow)
          /\ idx' = idx
    /\ UNCHANGED <<flow, catalog, feed, offer_ids, watch_remnants, stocks, prices,
                   batches, printed, fn_vars, page_vars>>

\* the loop over the stock batches is exhausted: main goes on to the prices (line
\* 358), upload_stocks returns (lines 344-345)
EndUpdateStocks ==
    /\ pc = "update_stocks"
    /\ idx > Len(batches)
    /\ pc' = IF flow = "main" THEN "create_prices" ELSE "returned"
    /\ UNCHANGED <<flow, catalog, feed, offer_ids, watch_remnants, stocks, prices,
                   batches, idx, calls, exc, printed, fn_vars, page_vars>>

\* lines 358-359, 319-320: create_prices on the list offer_ids as it is now, then
\* the batches of the for loop
CreatePrices ==
    /\ pc = "create_prices"
    /\ prices' = create_prices(watch_remnants, offer_ids)
    /\ batches' = divide(create_prices(watch_remnants, offer_ids),
                         PricesBatchSize(flow)).value
    /\ idx' = 1
    /\ pc' = "update_price"
    /\ UNCHANGED <<flow, catalog, feed, offer_ids, watch_remnants, stocks, calls,
                   exc, printed, fn_vars, page_vars>>

\* lines 360, 321: one turn of the loop, update_price(some_price, ...)
UpdatePrice ==
    /\ pc = "update_price"
    /\ idx <= Len(batches)
    /\ \/ /\ calls' = Append(calls, [fn |-> "update_price", batch |-> idx,
                                     n |-> Len(batches[idx]), ok |-> TRUE])
          /\ idx' = idx + 1
          /\ UNCHANGED <<pc, exc>>
       \/ /\ calls' = Append(calls, [fn |-> "update_price", batch |-> idx,
                                     n |-> Len(batches[idx]), ok |-> FALSE])
          /\ \E e \in RequestErrors : exc' = e
          /\ pc' = Propagate(flow)
          /\ idx' = idx
    /\ UNCHANGED <<flow, catalog, feed, offer_ids, watch_remnants, stocks, prices,
                   batches, printed, fn_vars, page_vars>>

\* the loop over the price batches is exhausted: main ends, upload_prices returns
EndUpdatePrice ==
    /\ pc = "update_price"
    /\ idx > Len(batches)
    /\ pc' = IF flow = "main" THEN "done" ELSE "returned"
    /\ UNCHANGED <<flow, catalog, feed, offer_ids, watch_remnants, stocks, prices,
                   batches, idx, calls, exc, printed, fn_vars, page_vars>>

\* lines 361-366: main's handlers print and the run ends
Except ==
    /\ pc = "except"
    /\ printed' = Message(exc)
    /\ pc' = "done"
    /\ UNCHANGED <<flow, catalog, feed, offer_ids, watch_remnants, stocks, prices,
                   batches, idx, calls, exc, fn_vars, page_vars>>

Next ==
    \/ GetOfferIds \/ DownloadStock
    \/ CreateStocks \/ UpdateStocks \/ EndUpdateStocks
    \/ CreatePrices \/ UpdatePrice \/ EndUpdatePrice
    \/ Except

Spec == Init /\ [][Next]_vars

\* C2 as claimed: create_stocks leaves the caller's list of known ids as fetched,
\* and main's create_prices gives a price record to every row of the feed whose
\* code is in the catalog as fetched.
C2_KnownIdsUntouchedByStocks ==
    flow = "main" =>
        /\ pc \in {"update_stocks", "create_prices", "update_price"} =>
               offer_ids = catalog
        /\ pc = "update_price" => prices = create_prices(watch_remnants, catalog)

C6_FailureEndsThePushes ==
    flow = "main" =>
        /\ \A i \in 1..Len(calls) :
               /\ i < Len(calls) => calls[i].ok
               /\ calls[i].batch = Cardinality({j \in 1..i : calls[j].fn = calls[i].fn})
               /\ i < Len(calls) /\ calls[i].fn = "update_price" =>
                      calls[i + 1].fn = "update_price"
        /\ Len(calls) > 0 /\ ~calls[Len(calls)].ok =>
               /\ pc \in {"except", "done"}
               /\ pc = "done" => printed = Message(exc) /\ printed # ""

\* C6 witness: main pushed a first stock batch, the second of three failed, the
\* handler printed and the run ended with the third never pushed.
C6_Witness ==
    /\ flow = "main" /\ pc = "done"
    /\ Len(batches) = 3
    /\ Len(calls) = 2
    /\ calls[1].ok /\ ~calls[2].ok
    /\ printed = "ERROR_2"

====
